---- MODULE Spec2Model ----
(***************************************************************************)
(* JustP2P Messenger API (backend/server.py): the users and backups        *)
(* collections, the register / login / 2FA / backup handlers, and the      *)
(* library primitives they call (bcrypt, JWT, TOTP, base64, Fernet).       *)
(*                                                                         *)
(* Text (str / bytes) is a sequence of byte values; an Optional value is   *)
(* a sequence of length at most one (None is the empty one).               *)
(***************************************************************************)
EXTENDS Integers, Sequences, FiniteSets, TLC

VARIABLES
    users,      \* db.users: the documents in insertion (natural) order
    backups,    \* db.backups: the documents in insertion order
    now,        \* the wall clock, in seconds
    tokens,     \* the access tokens handed out so far (held by clients)
    req,        \* per request slot: where a handler is between two awaits
    resp,       \* the response of the request that completed last
    issued,     \* per user id: what the latest setup / disable left behind
    uploads,    \* per backup id: what the upload that created it was given
    presence    \* per user id: the latest update-peer-id / set-offline call

vars == <<users, backups, now, tokens, req, resp, issued, uploads, presence>>

\* ------------------------------------------------------------------ bounds

MaxUsers == 2
MaxUploads == 2
MaxTicks == 2
MaxListed == 101

\* ------------------------------------------------------- program constants

BackupCodeCount == 8
TokenDays == 7
TotpInterval == 30
ListLimit == 100
OnlineLimit == 1000

None == <<>>
Some(x) == <<x>>

Range(s) == {s[i] : i \in 1..Len(s)}

\* Python truthiness of an Optional[str]: None and the empty string are both
\* falsy.  Truthy is for a str held as an atom, TruthyText for one held as a
\* sequence of characters.
Truthy(opt) == opt # None /\ opt[1] # ""
TruthyText(opt) == opt # None /\ Len(opt[1]) > 0

\* ------------------------------------------------------------------ base64

\* The base64 alphabet: the character (byte) of a 6-bit value.
B64Char(v, urlsafe) ==
    IF v < 26 THEN 65 + v
    ELSE IF v < 52 THEN 97 + (v - 26)
    ELSE IF v < 62 THEN 48 + (v - 52)
    ELSE IF v = 62 THEN (IF urlsafe THEN 45 ELSE 43)
    ELSE (IF urlsafe THEN 95 ELSE 47)

\* The 6-bit value of a character; 64 for a character outside the alphabet.
B64Value(ch, urlsafe) ==
    IF ch >= 65 /\ ch <= 90 THEN ch - 65
    ELSE IF ch >= 97 /\ ch <= 122 THEN ch - 97 + 26
    ELSE IF ch >= 48 /\ ch <= 57 THEN ch - 48 + 52
    ELSE IF ch = (IF urlsafe THEN 45 ELSE 43) THEN 62
    ELSE IF ch = (IF urlsafe THEN 95 ELSE 47) THEN 63
    ELSE 64

\* base64.b64encode / urlsafe_b64encode: three bytes to four characters, '='
\* padding on the last group.  Character j of the output belongs to group
\* (j - 1) \div 4, which encodes bytes 3g + 1 .. 3g + 3.
B2A(b, urlsafe) ==
    LET n == Len(b)
        At(k) == IF k <= n THEN b[k] ELSE 0
    IN [j \in 1..(4 * ((n + 2) \div 3)) |->
          LET g == (j - 1) \div 4
              p == (j - 1) % 4
              b1 == At(3 * g + 1)
              b2 == At(3 * g + 2)
              b3 == At(3 * g + 3)
          IN IF p = 0 THEN B64Char(b1 \div 4, urlsafe)
             ELSE IF p = 1 THEN B64Char((b1 % 4) * 16 + b2 \div 16, urlsafe)
             ELSE IF p = 2 THEN
                 (IF 3 * g + 2 > n THEN 61
                  ELSE B64Char((b2 % 16) * 4 + b3 \div 64, urlsafe))
             ELSE (IF 3 * g + 3 > n THEN 61 ELSE B64Char(b3 % 64, urlsafe))]

\* binascii.a2b_base64 in its default (non-strict) mode, as b64decode calls it.
\* Characters outside the alphabet are skipped.  A '=' ends the input when
\* it completes the padding of a group (the group has three data characters,
\* or two and the '=' before this one); any other '=' is skipped.  Data
\* characters left over in an unpadded last group are an error.
A2B(s, urlsafe) ==
    LET t    == SelectSeq(s, LAMBDA ch : ch = 61 \/ B64Value(ch, urlsafe) < 64)
        Data(k) == Cardinality({i \in 1..(k - 1) : t[i] # 61})
        stops == {k \in 1..Len(t) :
                     /\ t[k] = 61
                     /\ \/ Data(k) % 4 = 3
                        \/ Data(k) % 4 = 2 /\ k > 1 /\ t[k - 1] = 61}
        end  == IF stops = {} THEN Len(t) + 1
                ELSE CHOOSE k \in stops : \A j \in stops : k <= j
        d    == SelectSeq(SubSeq(t, 1, end - 1), LAMBDA ch : ch # 61)
        nd   == Len(d)
        V(k) == B64Value(d[k], urlsafe)
        nb   == (nd \div 4) * 3
                  + (IF nd % 4 = 2 THEN 1 ELSE IF nd % 4 = 3 THEN 2 ELSE 0)
    IN IF stops = {} /\ nd % 4 # 0 THEN [ok |-> FALSE, bytes |-> <<>>]
       ELSE [ok |-> TRUE,
             bytes |-> [k \in 1..nb |->
                 LET g == (k - 1) \div 3
                     p == (k - 1) % 3
                 IN IF p = 0 THEN V(4 * g + 1) * 4 + V(4 * g + 2) \div 16
                    ELSE IF p = 1 THEN (V(4 * g + 2) % 16) * 16 + V(4 * g + 3) \div 4
                    ELSE (V(4 * g + 3) % 4) * 64 + V(4 * g + 4)]]

b64encode(b) == B2A(b, FALSE)
b64decode(s) == A2B(s, FALSE)

\* ------------------------------------------------------------------ Fernet
\* The token layout of cryptography.fernet: version 0x80, the timestamp, the
\* IV, the CBC ciphertext of the PKCS7-padded plaintext, and a MAC over all
\* of it, urlsafe-base64 encoded.  The block cipher and the MAC are stand-ins
\* with one-byte IV and tag and a four-byte block: a keyed, chained byte
\* substitution and a keyed checksum.

ENCRYPTION_KEY == [signing |-> 91, encryption |-> 37]

Pkcs7Pad(b) ==
    LET n == 4 - (Len(b) % 4) IN b \o [i \in 1..n |-> n]

Pkcs7Unpad(b) ==
    IF Len(b) = 0 \/ Len(b) % 4 # 0 THEN [ok |-> FALSE, bytes |-> <<>>]
    ELSE LET n == b[Len(b)] IN
        IF n < 1 \/ n > 4 \/ \E i \in (Len(b) - n + 1)..Len(b) : b[i] # n
        THEN [ok |-> FALSE, bytes |-> <<>>]
        ELSE [ok |-> TRUE, bytes |-> SubSeq(b, 1, Len(b) - n)]

RECURSIVE SumBytes(_, _)
\* b[1] + ... + b[n]
SumBytes(b, n) == IF n = 0 THEN 0 ELSE b[n] + SumBytes(b, n - 1)

\* Each ciphertext byte is the plaintext byte shifted by the key and by the
\* ciphertext byte before it (the IV for the first one).
CbcEncrypt(p, iv, k) ==
    [i \in 1..Len(p) |-> (iv + i * k + SumBytes(p, i)) % 256]

CbcDecrypt(c, iv, k) ==
    [i \in 1..Len(c) |->
        (c[i] - k - (IF i = 1 THEN iv ELSE c[i - 1]) + 512) % 256]

Mac(b, k) == (SumBytes(b, Len(b)) * 7 + k) % 256

RECURSIVE ShiftRight(_, _)
\* n >> (8 * k)
ShiftRight(n, k) == IF k = 0 THEN n ELSE ShiftRight(n \div 256, k - 1)

BigEndian(n, width) ==
    [i \in 1..width |-> ShiftRight(n, width - i) % 256]

\* fernet.encrypt(data), at time t with the random IV iv.
FernetEncrypt(key, data, t, iv) ==
    LET body == <<128>> \o BigEndian(t, 8) \o <<iv>>
                    \o CbcEncrypt(Pkcs7Pad(data), iv, key.encryption)
    IN B2A(Append(body, Mac(body, key.signing)), TRUE)

\* fernet.decrypt(token): InvalidToken (ok = FALSE) when the token does not
\* decode, is too short, has the wrong version or MAC, or does not unpad.
FernetDecrypt(key, token) ==
    LET raw == A2B(token, TRUE) IN
    IF ~raw.ok \/ Len(raw.bytes) < 11 \/ raw.bytes[1] # 128
    THEN [ok |-> FALSE, bytes |-> <<>>]
    ELSE LET r    == raw.bytes
             body == SubSeq(r, 1, Len(r) - 1)
         IN IF Mac(body, key.signing) # r[Len(r)]
            THEN [ok |-> FALSE, bytes |-> <<>>]
            ELSE Pkcs7Unpad(CbcDecrypt(SubSeq(r, 11, Len(r) - 1), r[10], key.encryption))

\* ------------------------------------------------------------------ bcrypt
\* A bcrypt hash carries its salt; the digest stands for EksBlowfish of
\* (salt, password).

hash_password(password, salt) ==
    [salt |-> salt, digest |-> <<salt, password>>]

verify_password(password, hashed) ==
    hash_password(password, hashed.salt) = hashed

\* --------------------------------------------------------------------- JWT

JWT_SECRET == "your-secret-key-change-in-production"

\* HS256 over the payload: equal exactly for the same key and payload.
Sign(payload, key) == [key |-> key, over |-> payload]

TokenLifetime == TokenDays * 86400

create_access_token(user_id, email, t) ==
    LET payload == [user_id |-> user_id, email |-> email, exp |-> t + TokenLifetime]
    IN [payload |-> payload, sig |-> Sign(payload, JWT_SECRET)]

\* jwt.decode verifies the signature first and the exp claim after it.
decode_token_ignores_exp(token, t) ==
    IF token.sig # Sign(token.payload, JWT_SECRET)
    THEN [ok |-> FALSE, status |-> 401, detail |-> "Invalid token", payload |-> token.payload]
    ELSE [ok |-> TRUE, status |-> 200, detail |-> "", payload |-> token.payload]

decode_token(token, t) ==
    IF token.sig # Sign(token.payload, JWT_SECRET)
    THEN [ok |-> FALSE, status |-> 401, detail |-> "Invalid token", payload |-> token.payload]
    ELSE IF token.payload.exp <= t
    THEN [ok |-> FALSE, status |-> 401, detail |-> "Token expired", payload |-> token.payload]
    ELSE [ok |-> TRUE, status |-> 200, detail |-> "", payload |-> token.payload]

\* ------------------------------------------------------------- collections

\* find_one: the first document, in natural order, that matches; None if none.
\* hits are the positions of the documents the filter matches.
FindOne(coll, hits) ==
    IF hits = {} THEN None
    ELSE Some(coll[CHOOSE i \in hits : \A j \in hits : i <= j])

UpdateOneWithoutFilter(coll, id, fields) ==
    [k \in 1..Len(coll) |->
        [f \in DOMAIN coll[k] |->
            IF f \in DOMAIN fields THEN fields[f] ELSE coll[k][f]]]

\* update_one({"id": id}, {"$set": fields}): the first document with that id
\* gets the fields; every other field and document stays.
UpdateOne(coll, id, fields) ==
    LET hits == {i \in 1..Len(coll) : coll[i].id = id}
    IN IF hits = {} THEN coll
       ELSE LET k == CHOOSE i \in hits : \A j \in hits : i <= j
            IN [coll EXCEPT ![k] =
                   [f \in DOMAIN coll[k] |->
                       IF f \in DOMAIN fields THEN fields[f] ELSE coll[k][f]]]

\* delete_one(filter): the collection without its first matching document;
\* hits are the positions of the documents the filter matches.
DeleteOne(coll, hits) ==
    IF hits = {} THEN coll
    ELSE LET k == CHOOSE i \in hits : \A j \in hits : i <= j
         IN SubSeq(coll, 1, k - 1) \o SubSeq(coll, k + 1, Len(coll))

\* The document with this id.
UserById(coll, id) == FindOne(coll, {i \in 1..Len(coll) : coll[i].id = id})[1]

\* get_current_user: the caller's document, or the 401 of a token that is
\* expired or invalid or names no user.
get_current_user(token, t, coll) ==
    LET d == decode_token(token, t) IN
    IF ~d.ok THEN [ok |-> FALSE, status |-> d.status, detail |-> d.detail, user |-> None]
    ELSE LET user == FindOne(coll, {i \in 1..Len(coll) : coll[i].id = d.payload.user_id}) IN
        IF user = None
        THEN [ok |-> FALSE, status |-> 401, detail |-> "User not found", user |-> None]
        ELSE [ok |-> TRUE, status |-> 200, detail |-> "", user |-> user]

\* The User model with its defaults; the uuid4 id is the next unused one.
User(id, email, username, password_hash, t) ==
    [id |-> id, email |-> email, username |-> username,
     password_hash |-> password_hash,
     current_peer_id |-> None, online_status |-> FALSE,
     totp_secret |-> None, totp_enabled |-> FALSE, backup_codes |-> <<>>,
     passkey_credentials |-> <<>>, created_at |-> t]

\* ------------------------------------------------------------------ inputs

Emails == {"ann@p2p.io", "bob@p2p.io"}
Usernames == {"ann", "bob"}
Passwords == {"pw1", "pw2"}
Salts == {"saltA"}
Slots == {1, 2}

Idle == [pc |-> "idle"]

NoResp == [op |-> "none", uid |-> 0, status |-> 0, detail |-> "",
           in |-> [none |-> TRUE], out |-> [none |-> TRUE]]

\* A response: the handler, the caller it resolved (0 when it resolved none),
\* the HTTP status and detail, the request's input and the body returned.
Response(op, uid, status, detail, in, out) ==
    [op |-> op, uid |-> uid, status |-> status, detail |-> detail,
     in |-> in, out |-> out]

\* No presence call was made yet.
NoPresence == [last |-> "none", peer_id |-> None]

NeverSetup == [phase |-> "never", secret |-> None, codes |-> <<>>, accepted |-> <<>>]

\* A token whose signature was made with another key, one whose payload was
\* altered after signing, and a well-signed one naming a user id that no
\* document has.
ForgedTokens ==
    LET good == create_access_token(1, "ann@p2p.io", 0)
        ghost == [user_id |-> 99, email |-> "ann@p2p.io", exp |-> TokenLifetime]
    IN { [payload |-> good.payload, sig |-> Sign(good.payload, "guess")],
         [payload |-> [good.payload EXCEPT !.user_id = 2], sig |-> good.sig],
         [payload |-> ghost, sig |-> Sign(ghost, JWT_SECRET)] }

\* A bearer string that is no JWT at all: no key signs it.
MalformedToken ==
    [payload |-> [user_id |-> 0, email |-> "", exp |-> 0],
     sig |-> [key |-> "", over |-> [user_id |-> 0, email |-> "", exp |-> 0]]]

\* The bearer tokens a request may carry: one that was handed out, or a
\* forged one.
Presented == tokens \cup {CHOOSE f \in ForgedTokens : f.sig.key # JWT_SECRET}

\* -------------------------------------------------------------------- time

Ticks(t) == (t \div TokenLifetime) + ((t % TokenLifetime) \div TotpInterval)

\* Time passes: by one TOTP interval, or by the lifetime of a token.
Tick(d) ==
    /\ Ticks(now) < MaxTicks
    /\ now' = now + d
    /\ UNCHANGED <<users, backups, tokens, req, resp, issued, uploads, presence>>

\* ---------------------------------------------------------------- register

Pending(pc) == {r \in Slots : req[r].pc = pc}

RegisterMatchEmailOnly(u, email, username) == u.email = email

\* The filter of register's find_one: {"$or": [{email}, {username}]}.
RegisterMatch(u, email, username) == u.email = email \/ u.username = username

\* register, up to its first await: find_one on email-or-username; the 400
\* when a document was found, else the new User is built and the handler
\* waits to insert it.
RegisterFind(r, email, username, password, salt) ==
    /\ req[r] = Idle
    /\ Len(users) + Cardinality(Pending("register_insert")) < MaxUsers
    /\ LET existing == FindOne(users, {i \in 1..Len(users) :
                                  RegisterMatch(users[i], email, username)})
       IN IF existing # None
          THEN /\ resp' = Response("register", 0, 400, "Email or username already exists",
                                   [email |-> email, username |-> username, password |-> password],
                                   [access_token |-> None])
               /\ req' = req
          ELSE /\ req' = [req EXCEPT ![r] =
                            [pc |-> "register_insert", email |-> email, username |-> username,
                             password |-> password,
                             password_hash |-> hash_password(password, salt)]]
               /\ resp' = resp
    /\ UNCHANGED <<users, backups, now, tokens, issued, uploads, presence>>

\* register, from insert_one on: the document is inserted and the token made.
RegisterInsert(r) ==
    /\ req[r].pc = "register_insert"
    /\ LET user  == User(Len(users) + 1, req[r].email, req[r].username,
                         req[r].password_hash, now)
           token == create_access_token(user.id, user.email, now)
       IN /\ users' = Append(users, user)
          /\ tokens' = tokens \cup {token}
          /\ resp' = Response("register", user.id, 200, "",
                              [email |-> req[r].email, username |-> req[r].username,
                               password |-> req[r].password],
                              [access_token |-> Some(token),
                               user |-> [id |-> user.id, email |-> user.email,
                                         username |-> user.username,
                                         totp_enabled |-> user.totp_enabled]])
    /\ req' = [req EXCEPT ![r] = Idle]
    /\ UNCHANGED <<backups, now, issued, uploads, presence>>

\* ------------------------------------------------------------------- login

login(email, password) ==
    /\ LET user == FindOne(users, {i \in 1..Len(users) : users[i].email = email})
       IN IF user = None \/ ~verify_password(password, user[1].password_hash)
          THEN /\ resp' = Response("login", 0, 401, "Invalid credentials",
                                   [email |-> email, password |-> password],
                                   [access_token |-> None])
               /\ tokens' = tokens
          ELSE LET token == create_access_token(user[1].id, user[1].email, now)
               IN /\ tokens' = tokens \cup {token}
                  /\ resp' = Response("login", user[1].id, 200, "",
                                  [email |-> email, password |-> password],
                                  [access_token |-> Some(token),
                                   user |-> [id |-> user[1].id, email |-> user[1].email,
                                             username |-> user[1].username,
                                             totp_enabled |-> user[1].totp_enabled,
                                             current_peer_id |-> user[1].current_peer_id]])
    /\ UNCHANGED <<users, backups, now, req, issued, uploads, presence>>

\* -------------------------------------------------------------------- TOTP

\* The six-digit codes a secret yields, interval after interval.
OtpDigits == <<"492039", "081804">>

SecretSeed(secret) == IF secret = "JBSWY3DPEHPK3PXPJBSWY3DPEHPK3PXP" THEN 0 ELSE 1

\* pyotp TOTP(secret).at(t): six digits that depend on the secret and on the
\* number of the 30-second interval t falls in.
TotpAt(secret, t) ==
    OtpDigits[((SecretSeed(secret) + t \div TotpInterval) % Len(OtpDigits)) + 1]

TotpVerifyWindowOne(secret, code, t) ==
    \E d \in {0 - TotpInterval, 0, TotpInterval} : code = TotpAt(secret, t + d)

\* pyotp TOTP(secret).verify(code): valid_window is left at 0, so only the
\* code of the current interval matches.
TotpVerify(secret, code, t) == code = TotpAt(secret, t)

\* generate_backup_codes(): eight strings of eight upper-case hex digits, each
\* cut from its own uuid4, so nothing keeps two of them apart.  Two outcomes:
\* eight different codes, and eight with the first one drawn again as the last.
CodeBatches ==
    << << "3F2A9C1B", "7D04E6A2", "B81C55F0", "0E9D3A47",
          "C6F1208B", "5A7B9E13", "D2384C6E", "91AF07D5" >>,
       << "4B7E21C9", "E05A8D36", "1C93F7B4", "A6D2405F",
          "68F3B1E7", "F29C6A08", "37E58B2D", "4B7E21C9" >> >>

\* What one setup call draws: pyotp.random_base32() and the backup codes.
SetupDraws ==
    { [secret |-> "JBSWY3DPEHPK3PXPJBSWY3DPEHPK3PXP", codes |-> CodeBatches[1]],
      [secret |-> "KRSXG5CTMVRXEZLUKRSXG5CTMVRXEZLU", codes |-> CodeBatches[2]] }

\* The codes a client may type into verify: issued backup codes, one-time
\* codes, and a string that is neither.
CodeInputs ==
    {"3F2A9C1B", "7D04E6A2", "4B7E21C9", "00000000"} \cup Range(OtpDigits)

\* The provisioning URI the QR image encodes.
ProvisioningUri(secret, email) ==
    [scheme |-> "otpauth://totp", issuer |-> "JustP2P", name |-> email, secret |-> secret]

\* ------------------------------------------------------------------- 2FA

Unauthorized(op, cu, in) ==
    Response(op, 0, cu.status, cu.detail, in, [none |-> TRUE])

\* setup_2fa: a new secret and new backup codes are stored on the caller.
setup_2fa(tok, secret, codes) ==
    /\ Len(codes) = BackupCodeCount
    /\ LET cu == get_current_user(tok, now, users) IN
       IF ~cu.ok
       THEN /\ resp' = Unauthorized("setup", cu, [none |-> TRUE])
            /\ UNCHANGED <<users, issued>>
       ELSE LET id == cu.user[1].id IN
            /\ users' = UpdateOne(users, id,
                           [totp_secret |-> Some(secret), backup_codes |-> codes])
            /\ resp' = Response("setup", id, 200, "", [none |-> TRUE],
                           [qr_code |-> ProvisioningUri(secret, cu.user[1].email),
                            secret |-> secret, backup_codes |-> codes])
            /\ issued' = [issued EXCEPT ![id] =
                           [phase |-> "setup", secret |-> Some(secret), codes |-> codes,
                            accepted |-> [c \in Range(codes) |-> 0]]]
    /\ UNCHANGED <<backups, now, tokens, req, uploads, presence>>

RemainingCodesKeepsAll(codes, code) == codes

\* The backup codes that stay stored when code is used.
RemainingCodes(codes, code) == SelectSeq(codes, LAMBDA c : c # code)

verify_2fa_outcome_totp_sets_nothing(user, code, t) ==
    IF ~Truthy(user.totp_secret)
    THEN [status |-> 400, detail |-> "2FA not setup", write |-> FALSE, set |-> <<>>]
    ELSE IF TotpVerify(user.totp_secret[1], code, t)
    THEN [status |-> 200, detail |-> "2FA enabled successfully", write |-> TRUE,
          set |-> <<>>]
    ELSE IF code \in Range(user.backup_codes)
    THEN [status |-> 200, detail |-> "2FA verified with backup code", write |-> TRUE,
          set |-> [backup_codes |-> RemainingCodes(user.backup_codes, code),
                   totp_enabled |-> TRUE]]
    ELSE [status |-> 400, detail |-> "Invalid code", write |-> FALSE, set |-> <<>>]

\* verify_2fa from the user document it read: the response, whether it calls
\* update_one, and the fields that call sets.
verify_2fa_outcome(user, code, t) ==
    IF ~Truthy(user.totp_secret)
    THEN [status |-> 400, detail |-> "2FA not setup", write |-> FALSE, set |-> <<>>]
    ELSE IF TotpVerify(user.totp_secret[1], code, t)
    THEN [status |-> 200, detail |-> "2FA enabled successfully", write |-> TRUE,
          set |-> [totp_enabled |-> TRUE]]
    ELSE IF code \in Range(user.backup_codes)
    THEN [status |-> 200, detail |-> "2FA verified with backup code", write |-> TRUE,
          set |-> [backup_codes |-> RemainingCodes(user.backup_codes, code),
                   totp_enabled |-> TRUE]]
    ELSE [status |-> 400, detail |-> "Invalid code", write |-> FALSE, set |-> <<>>]

\* The backup codes accepted since the latest setup, one more of code.
Accept(log, code) ==
    IF code \in DOMAIN log.accepted
    THEN [log EXCEPT !.accepted[code] = @ + 1]
    ELSE log

\* verify_2fa, with no other request between its find_one and its update_one.
\* The response's input notes, beside the code and the time it was checked
\* at, the totp_enabled flag the handler read and the response before this one.
verify_2fa(tok, code) ==
    /\ LET cu == get_current_user(tok, now, users) IN
       IF ~cu.ok
       THEN /\ resp' = Unauthorized("verify", cu,
                                     [code |-> code, at |-> now, enabled |-> FALSE,
                                      after |-> [op |-> resp.op, uid |-> resp.uid]])
            /\ UNCHANGED <<users, issued>>
       ELSE LET id   == cu.user[1].id
                user == FindOne(users, {i \in 1..Len(users) : users[i].id = id})[1]
                o    == verify_2fa_outcome(user, code, now)
            IN /\ users' = IF o.write THEN UpdateOne(users, id, o.set) ELSE users
               /\ resp' = Response("verify", id, o.status, o.detail,
                              [code |-> code, at |-> now, enabled |-> user.totp_enabled,
                               after |-> [op |-> resp.op, uid |-> resp.uid]],
                              [success |-> o.status = 200])
               /\ issued' = IF o.detail = "2FA verified with backup code"
                            THEN [issued EXCEPT ![id] = Accept(@, code)]
                            ELSE issued
    /\ UNCHANGED <<backups, now, tokens, req, uploads, presence>>

\* verify_2fa up to the await of its update_one: the caller is resolved, the
\* user document is read and the code is checked against it.  A refusal is
\* answered at once; an acceptance leaves the handler waiting to write the
\* fields it computed from the document it read.
VerifyRead(r, tok, code) ==
    /\ req[r] = Idle
    /\ LET cu == get_current_user(tok, now, users) IN
       IF ~cu.ok
       THEN /\ resp' = Unauthorized("verify", cu,
                                     [code |-> code, at |-> now, enabled |-> FALSE,
                                      after |-> [op |-> resp.op, uid |-> resp.uid]])
            /\ UNCHANGED req
       ELSE LET id   == cu.user[1].id
                user == FindOne(users, {i \in 1..Len(users) : users[i].id = id})[1]
                o    == verify_2fa_outcome(user, code, now)
            IN IF o.write
               THEN /\ req' = [req EXCEPT ![r] =
                                  [pc |-> "verify_update", id |-> id, code |-> code,
                                   at |-> now, enabled |-> user.totp_enabled,
                                   outcome |-> o]]
                    /\ UNCHANGED resp
               ELSE /\ resp' = Response("verify", id, o.status, o.detail,
                                   [code |-> code, at |-> now, enabled |-> user.totp_enabled,
                                    after |-> [op |-> resp.op, uid |-> resp.uid]],
                                   [success |-> FALSE])
                    /\ UNCHANGED req
    /\ UNCHANGED <<users, backups, now, tokens, issued, uploads, presence>>

\* verify_2fa from its update_one on: the fields computed at the read are
\* written and the success is answered.
VerifyWrite(r) ==
    /\ req[r].pc = "verify_update"
    /\ LET p == req[r] IN
       /\ users' = UpdateOne(users, p.id, p.outcome.set)
       /\ resp' = Response("verify", p.id, p.outcome.status, p.outcome.detail,
                      [code |-> p.code, at |-> p.at, enabled |-> p.enabled,
                       after |-> [op |-> resp.op, uid |-> resp.uid]],
                      [success |-> TRUE])
       /\ issued' = IF p.outcome.detail = "2FA verified with backup code"
                    THEN [issued EXCEPT ![p.id] = Accept(@, p.code)]
                    ELSE issued
    /\ req' = [req EXCEPT ![r] = Idle]
    /\ UNCHANGED <<backups, now, tokens, uploads, presence>>

DisableFieldsKeepSecret(user) ==
    [totp_enabled |-> FALSE, totp_secret |-> user.totp_secret, backup_codes |-> <<>>]

\* The $set of disable_2fa.
DisableFields(user) ==
    [totp_enabled |-> FALSE, totp_secret |-> None, backup_codes |-> <<>>]

\* disable_2fa: the secret and the codes are cleared, the flag is reset.
disable_2fa(tok) ==
    /\ LET cu == get_current_user(tok, now, users) IN
       IF ~cu.ok
       THEN /\ resp' = Unauthorized("disable", cu, [none |-> TRUE])
            /\ UNCHANGED <<users, issued>>
       ELSE LET id == cu.user[1].id IN
            /\ users' = UpdateOne(users, id, DisableFields(cu.user[1]))
            /\ resp' = Response("disable", id, 200, "2FA disabled",
                           [none |-> TRUE], [success |-> TRUE])
            /\ issued' = [issued EXCEPT ![id] =
                           [@ EXCEPT !.phase = IF @ = "never" THEN "never" ELSE "disabled",
                                     !.accepted = <<>>]]
    /\ UNCHANGED <<backups, now, tokens, req, uploads, presence>>

\* ------------------------------------------------------- profile, presence

PeerIds == {"peer-1", "peer-2"}

\* get_me: the caller's own document, as get_current_user read it.
get_me(tok) ==
    /\ LET cu == get_current_user(tok, now, users) IN
       IF ~cu.ok
       THEN resp' = Unauthorized("me", cu, [none |-> TRUE])
       ELSE resp' = Response("me", cu.user[1].id, 200, "", [none |-> TRUE],
                        [id |-> cu.user[1].id, email |-> cu.user[1].email,
                         username |-> cu.user[1].username,
                         totp_enabled |-> cu.user[1].totp_enabled,
                         current_peer_id |-> cu.user[1].current_peer_id,
                         online_status |-> cu.user[1].online_status])
    /\ UNCHANGED <<users, backups, now, tokens, req, issued, uploads, presence>>

\* lookup_username: no bearer token; the first document with that username.
lookup_username(username) ==
    /\ LET user == FindOne(users, {i \in 1..Len(users) : users[i].username = username})
           in   == [username |-> username]
       IN IF user = None
          THEN resp' = Response("lookup", 0, 404, "User not found", in, [none |-> TRUE])
          ELSE resp' = Response("lookup", 0, 200, "", in,
                           [username |-> user[1].username,
                            peer_id |-> user[1].current_peer_id,
                            online_status |-> user[1].online_status])
    /\ UNCHANGED <<users, backups, now, tokens, req, issued, uploads, presence>>

\* update_peer_id: the caller gets the peer id and is marked online.
update_peer_id(tok, peer_id) ==
    /\ LET cu == get_current_user(tok, now, users)
           in == [peer_id |-> peer_id]
       IN
       IF ~cu.ok
       THEN /\ resp' = Unauthorized("update_peer_id", cu, in)
            /\ UNCHANGED <<users, presence>>
       ELSE LET id == cu.user[1].id IN
            /\ users' = UpdateOne(users, id,
                           [current_peer_id |-> Some(peer_id), online_status |-> TRUE])
            /\ resp' = Response("update_peer_id", id, 200, "", in,
                           [success |-> TRUE, peer_id |-> peer_id])
            /\ presence' = [presence EXCEPT ![id] =
                               [last |-> "update_peer_id", peer_id |-> Some(peer_id)]]
    /\ UNCHANGED <<backups, now, tokens, req, issued, uploads>>

\* set_offline: the caller is marked offline; the peer id stays stored.
set_offline(tok) ==
    /\ LET cu == get_current_user(tok, now, users) IN
       IF ~cu.ok
       THEN /\ resp' = Unauthorized("set_offline", cu, [none |-> TRUE])
            /\ UNCHANGED <<users, presence>>
       ELSE LET id == cu.user[1].id IN
            /\ users' = UpdateOne(users, id, [online_status |-> FALSE])
            /\ resp' = Response("set_offline", id, 200, "", [none |-> TRUE],
                           [success |-> TRUE])
            /\ presence' = [presence EXCEPT ![id] = [@ EXCEPT !.last = "set_offline"]]
    /\ UNCHANGED <<backups, now, tokens, req, issued, uploads>>

\* The first n elements of s.
Take(s, n) == SubSeq(s, 1, IF Len(s) < n THEN Len(s) ELSE n)

\* get_online_users: the documents marked online whose id is not the
\* caller's, projected to username and current_peer_id, at most 1000 of them.
get_online_users(tok) ==
    /\ LET cu == get_current_user(tok, now, users) IN
       IF ~cu.ok
       THEN resp' = Unauthorized("online", cu, [none |-> TRUE])
       ELSE LET id    == cu.user[1].id
                found == SelectSeq(users, LAMBDA u : u.online_status /\ u.id # id)
            IN resp' = Response("online", id, 200, "", [none |-> TRUE],
                           [users |-> Take([i \in 1..Len(found) |->
                                               [username |-> found[i].username,
                                                current_peer_id |-> found[i].current_peer_id]],
                                           OnlineLimit)])
    /\ UNCHANGED <<users, backups, now, tokens, req, issued, uploads, presence>>

\* ----------------------------------------------------------------- backups

IVs == {200}

\* The upload requests clients send.  The data fields are "aGVsbG8=" (hello),
\* "" (no bytes), "aGk=" with a line break inside it (hi), and "a", which is
\* not base64.
UploadInputs ==
    { [filename |-> "notes.txt", provider |-> "local",
       data |-> <<97, 71, 86, 115, 98, 71, 56, 61>>],
      [filename |-> "keys.bin", provider |-> "local", data |-> <<>>],
      [filename |-> "keys.bin", provider |-> "local", data |-> <<97, 71, 10, 107, 61>>],
      [filename |-> "notes.txt", provider |-> "gdrive",
       data |-> <<97, 71, 86, 115, 98, 71, 56, 61>>],
      [filename |-> "notes.txt", provider |-> "local", data |-> <<97>>] }

UploadPlaintextUndecoded(data) == [ok |-> TRUE, bytes |-> data]

\* The bytes upload encrypts: base64.b64decode(backup.data).
UploadPlaintext(data) == b64decode(data)

\* The BackupMetadata model with its defaults.
BackupMetadata(id, user_id, filename, provider, encrypted_data, t) ==
    [id |-> id, user_id |-> user_id, filename |-> filename, provider |-> provider,
     encrypted_data |-> encrypted_data, cloud_file_id |-> None, created_at |-> t]

StoredPayloadForAnyProvider(provider, encrypted_data) ==
    Some(b64encode(encrypted_data))

\* The encrypted_data of the new document: the ciphertext, base64 encoded,
\* only for provider 'local'.
StoredPayload(provider, encrypted_data) ==
    IF provider = "local" THEN Some(b64encode(encrypted_data)) ELSE None

\* upload_backup: the data is decoded and encrypted, and a document is
\* inserted that carries the ciphertext only for provider "local".
upload_backup(tok, filename, data, provider, iv) ==
    /\ LET cu == get_current_user(tok, now, users)
           in == [filename |-> filename, data |-> data, provider |-> provider]
       IN
       IF ~cu.ok
       THEN /\ resp' = Unauthorized("upload", cu, in)
            /\ UNCHANGED <<backups, uploads>>
       ELSE LET plain == UploadPlaintext(data) IN
            IF ~plain.ok
            THEN /\ resp' = Response("upload", cu.user[1].id, 400, "Encryption failed",
                                     in, [none |-> TRUE])
                 /\ UNCHANGED <<backups, uploads>>
            ELSE LET encrypted_data == FernetEncrypt(ENCRYPTION_KEY, plain.bytes, now, iv)
                     metadata == BackupMetadata(Len(uploads) + 1, cu.user[1].id,
                                     filename, provider,
                                     StoredPayload(provider, encrypted_data),
                                     now)
                 IN /\ backups' = Append(backups, metadata)
                    /\ resp' = Response("upload", cu.user[1].id, 200,
                                        "Backup uploaded successfully", in,
                                        [success |-> TRUE, backup_id |-> metadata.id])
                    /\ uploads' = Append(uploads,
                                     [owner |-> cu.user[1].id, filename |-> filename,
                                      data |-> data, provider |-> provider,
                                      deleted |-> FALSE])
    /\ UNCHANGED <<users, now, tokens, req, issued, presence>>

OwnedMatchAnyOwner(b, backup_id, user_id) == b.id = backup_id

\* The filter of download's find_one and delete's delete_one:
\* {"id": backup_id, "user_id": current_user["id"]}.
OwnedMatch(b, backup_id, user_id) == b.id = backup_id /\ b.user_id = user_id

\* download_backup: 404 for no document of the caller with that id, 400 for
\* one that is not local or holds no ciphertext, 500 when decoding or
\* decrypting fails, else the filename and the plaintext, base64 encoded.
download_backup(tok, backup_id) ==
    /\ LET cu == get_current_user(tok, now, users)
           in == [backup_id |-> backup_id]
       IN
       IF ~cu.ok
       THEN resp' = Unauthorized("download", cu, in)
       ELSE LET id     == cu.user[1].id
                backup == FindOne(backups, {i \in 1..Len(backups) :
                                      OwnedMatch(backups[i], backup_id, id)})
            IN
            IF backup = None
            THEN resp' = Response("download", id, 404, "Backup not found", in, [none |-> TRUE])
            ELSE IF backup[1].provider # "local" \/ ~TruthyText(backup[1].encrypted_data)
            THEN resp' = Response("download", id, 400,
                             "Only local backups can be downloaded via API", in, [none |-> TRUE])
            ELSE LET encrypted_data == b64decode(backup[1].encrypted_data[1])
                     decrypted_data ==
                         IF encrypted_data.ok
                         THEN FernetDecrypt(ENCRYPTION_KEY, encrypted_data.bytes)
                         ELSE encrypted_data
                 IN IF ~decrypted_data.ok
                    THEN resp' = Response("download", id, 500, "Decryption failed",
                                          in, [none |-> TRUE])
                    ELSE resp' = Response("download", id, 200, "", in,
                                     [filename |-> backup[1].filename,
                                      data |-> b64encode(decrypted_data.bytes),
                                      created_at |-> backup[1].created_at])
    /\ UNCHANGED <<users, backups, now, tokens, req, issued, uploads, presence>>

\* delete_backup: the caller's document with that id is removed; 404 when
\* nothing was deleted.
delete_backup(tok, backup_id) ==
    /\ LET cu == get_current_user(tok, now, users)
           in == [backup_id |-> backup_id]
       IN
       IF ~cu.ok
       THEN /\ resp' = Unauthorized("delete", cu, in)
            /\ UNCHANGED <<backups, uploads>>
       ELSE LET id    == cu.user[1].id
                after == DeleteOne(backups, {i \in 1..Len(backups) :
                                      OwnedMatch(backups[i], backup_id, id)})
            IN
            IF Len(after) = Len(backups)
            THEN /\ resp' = Response("delete", id, 404, "Backup not found", in, [none |-> TRUE])
                 /\ UNCHANGED <<backups, uploads>>
            ELSE /\ backups' = after
                 /\ resp' = Response("delete", id, 200, "Backup deleted", in, [success |-> TRUE])
                 /\ uploads' = IF backup_id \in 1..Len(uploads)
                               THEN [uploads EXCEPT ![backup_id].deleted = TRUE]
                               ELSE uploads
    /\ UNCHANGED <<users, now, tokens, req, issued, presence>>

\* sort("created_at", -1): the documents by descending created_at.  MongoDB
\* leaves the order among equal keys open; they are kept in natural order here.
SortNewestFirst(docs) ==
    SortSeq(docs, LAMBDA a, b : a.created_at > b.created_at)

\* The projection {"_id": 0, "encrypted_data": 0}.
WithoutEncryptedData(b) == [f \in DOMAIN b \ {"encrypted_data"} |-> b[f]]

\* list_backups: the caller's documents without encrypted_data, newest
\* first, at most 100 of them.
list_backups(tok) ==
    /\ LET cu == get_current_user(tok, now, users) IN
       IF ~cu.ok
       THEN resp' = Unauthorized("list", cu, [none |-> TRUE])
       ELSE LET id    == cu.user[1].id
                found == SelectSeq(backups, LAMBDA b : b.user_id = id)
                shown == Take(SortNewestFirst(found), ListLimit)
            IN resp' = Response("list", id, 200, "", [none |-> TRUE],
                           [backups |-> [i \in 1..Len(shown) |->
                                            WithoutEncryptedData(shown[i])]])
    /\ UNCHANGED <<users, backups, now, tokens, req, issued, uploads, presence>>

\* ---------------------------------------------------------- specifications

\* The state after construction: empty collections, no request in flight.
Init ==
    /\ users = <<>>
    /\ backups = <<>>
    /\ now = 0
    /\ tokens = {}
    /\ req = [r \in Slots |-> Idle]
    /\ resp = NoResp
    /\ issued = [id \in 1..MaxUsers |-> NeverSetup]
    /\ uploads = <<>>
    /\ presence = [id \in 1..MaxUsers |-> NoPresence]

Next ==
    \/ \E r \in Slots, e \in Emails, n \in Usernames, p \in Passwords, s \in Salts :
           RegisterFind(r, e, n, p, s)
    \/ \E r \in Slots : RegisterInsert(r)
    \/ \E e \in Emails, p \in Passwords : login(e, p)

Spec == Init /\ [][Next]_vars

\* Two accounts registered one after the other at time 0, each holding the
\* token its registration returned.
Registered ==
    << User(1, "ann@p2p.io", "ann", hash_password("pw1", "saltA"), 0),
       User(2, "bob@p2p.io", "bob", hash_password("pw2", "saltA"), 0) >>

InitRegistered ==
    /\ users = Registered
    /\ backups = <<>>
    /\ now = 0
    /\ tokens = {create_access_token(Registered[i].id, Registered[i].email, 0) : i \in 1..2}
    /\ req = [r \in Slots |-> Idle]
    /\ resp = NoResp
    /\ issued = [id \in 1..MaxUsers |-> NeverSetup]
    /\ uploads = <<>>
    /\ presence = [id \in 1..MaxUsers |-> NoPresence]

\* The 2FA handlers, one request at a time, while time passes.
Next2FA ==
    \/ \E tok \in Presented, d \in SetupDraws : setup_2fa(tok, d.secret, d.codes)
    \/ \E tok \in Presented, code \in CodeInputs : verify_2fa(tok, code)
    \/ \E tok \in Presented : disable_2fa(tok)
    \/ Tick(TotpInterval)

Spec2FA == InitRegistered /\ [][Next2FA]_vars

\* The backup handlers on the two registered accounts.
NextBackup ==
    \/ \E tok \in Presented, u \in UploadInputs, iv \in IVs :
           /\ Len(uploads) < MaxUploads
           /\ upload_backup(tok, u.filename, u.data, u.provider, iv)
    \/ \E tok \in Presented, id \in 1..MaxUploads : download_backup(tok, id)
    \/ \E tok \in Presented, id \in 1..MaxUploads : delete_backup(tok, id)
    \/ \E tok \in Presented : list_backups(tok)

SpecBackup == InitRegistered /\ [][NextBackup]_vars

\* One account keeps uploading, to one more backup than a list call returns,
\* and both accounts list.
NextList ==
    \/ \E tok \in tokens, iv \in IVs :
           /\ tok.payload.user_id = 1
           /\ Len(uploads) < MaxListed
           /\ upload_backup(tok, "notes.txt", <<97, 71, 86, 115, 98, 71, 56, 61>>, "local", iv)
    \/ \E tok \in tokens : list_backups(tok)

SpecList == InitRegistered /\ [][NextList]_vars

\* Accounts are registered, two requests at a time, and the holders of the
\* tokens report and query presence.
NextPresence ==
    \/ \E r \in Slots, e \in Emails, n \in Usernames, s \in Salts :
           RegisterFind(r, e, n, "pw1", s)
    \/ \E r \in Slots : RegisterInsert(r)
    \/ \E tok \in tokens, p \in PeerIds : update_peer_id(tok, p)
    \/ \E tok \in tokens : set_offline(tok)
    \/ \E tok \in tokens : get_online_users(tok)
    \/ \E n \in Usernames : lookup_username(n)

SpecPresence == Init /\ [][NextPresence]_vars

\* The number of the draw d among the draws of one account: each setup
\* draws a secret and codes that no setup before it drew.
DrawNumber(codes) == IF codes = <<>> THEN 0 ELSE IF codes = CodeBatches[1] THEN 1 ELSE 2

RaceCodes == {"3F2A9C1B", "7D04E6A2"} \cup Range(OtpDigits)

\* The tokens of the first account.
RaceTokens == {tok \in tokens : tok.payload.user_id = 1}

\* The 2FA handlers of one account with two requests in flight: a verify may
\* wait between its read and its write while setup, disable or another
\* verify runs.
NextRace ==
    \/ \E tok \in RaceTokens, d \in SetupDraws :
           /\ DrawNumber(d.codes) = DrawNumber(issued[tok.payload.user_id].codes) + 1
           /\ setup_2fa(tok, d.secret, d.codes)
    \/ \E r \in Slots, tok \in RaceTokens, code \in RaceCodes : VerifyRead(r, tok, code)
    \/ \E r \in Slots : VerifyWrite(r)
    \/ \E tok \in RaceTokens : disable_2fa(tok)

SpecRace == InitRegistered /\ [][NextRace]_vars

\* Every bearer-protected handler, on the two registered accounts, with
\* tokens that are good, expired, forged or malformed; the clock passes the
\* expiry of the first tokens once, and a client logs in again.  To keep the reachable states few, a behaviour
\* that has used the 2FA handlers does not go on to the presence and backup
\* handlers, and the other way round; the read-only handlers run in both.
PresentedAll == tokens \cup ForgedTokens \cup {MalformedToken}

AllCodes == {OtpDigits[1], "3F2A9C1B", "00000000"}

No2FAYet == \A id \in 1..MaxUsers : issued[id] = NeverSetup

NoPresenceOrBackupYet ==
    /\ \A id \in 1..MaxUsers : presence[id] = NoPresence
    /\ uploads = <<>>

NextAll ==
    \/ \E tok \in PresentedAll : get_me(tok)
    \/ \E tok \in PresentedAll :
           /\ NoPresenceOrBackupYet
           /\ setup_2fa(tok, "JBSWY3DPEHPK3PXPJBSWY3DPEHPK3PXP", CodeBatches[1])
    \/ \E tok \in PresentedAll, code \in AllCodes :
           NoPresenceOrBackupYet /\ verify_2fa(tok, code)
    \/ \E tok \in PresentedAll : NoPresenceOrBackupYet /\ disable_2fa(tok)
    \/ \E tok \in PresentedAll : No2FAYet /\ update_peer_id(tok, "peer-1")
    \/ \E tok \in PresentedAll : No2FAYet /\ set_offline(tok)
    \/ \E tok \in PresentedAll : get_online_users(tok)
    \/ \E tok \in PresentedAll, iv \in IVs :
           /\ No2FAYet
           /\ Len(uploads) < MaxUploads - 1
           /\ upload_backup(tok, "notes.txt", <<97, 71, 86, 115, 98, 71, 56, 61>>, "local", iv)
    \/ \E tok \in PresentedAll : list_backups(tok)
    \/ \E tok \in PresentedAll, id \in 1..(MaxUploads - 1) : download_backup(tok, id)
    \/ \E tok \in PresentedAll, id \in 1..(MaxUploads - 1) :
           No2FAYet /\ delete_backup(tok, id)
    \/ login("ann@p2p.io", "pw1")
    \/ now = 0 /\ Tick(TokenLifetime)

SpecAll == InitRegistered /\ [][NextAll]_vars

\* Every handler that writes, with the unauthenticated ones: the two accounts
\* are registered one after the other before either is used, log in, look
\* each other up, and use the 2FA, presence and backup handlers with the
\* tokens they hold (the 2FA handlers and the others in separate behaviours,
\* as in SpecAll).
RegisteredPasswords == <<"pw1", "pw2">>

NextFrame ==
    \/ \E i \in 1..Len(Registered) :
           /\ i <= Len(users) + 1
           /\ No2FAYet /\ NoPresenceOrBackupYet
           /\ RegisterFind(1, Registered[i].email, Registered[i].username,
                           RegisteredPasswords[i], "saltA")
    \/ RegisterInsert(1)
    \/ \E e \in Emails, pw \in Passwords : login(e, pw)
    \/ \E n \in Usernames : lookup_username(n)
    \/ \E tok \in tokens, d \in SetupDraws :
           NoPresenceOrBackupYet /\ setup_2fa(tok, d.secret, d.codes)
    \/ \E tok \in tokens, code \in AllCodes :
           NoPresenceOrBackupYet /\ verify_2fa(tok, code)
    \/ \E tok \in tokens : NoPresenceOrBackupYet /\ disable_2fa(tok)
    \/ \E tok \in tokens, peer \in PeerIds : No2FAYet /\ update_peer_id(tok, peer)
    \/ \E tok \in tokens : No2FAYet /\ set_offline(tok)
    \/ \E tok \in tokens, iv \in IVs :
           /\ No2FAYet
           /\ Len(uploads) < MaxUploads
           /\ upload_backup(tok, "notes.txt", <<97, 71, 86, 115, 98, 71, 56, 61>>, "local", iv)
    \/ \E tok \in tokens, id \in 1..MaxUploads : No2FAYet /\ delete_backup(tok, id)

SpecFrame == Init /\ [][NextFrame]_vars

\* ------------------------------------------------------------------ claims

UserIds == {users[i].id : i \in 1..Len(users)}

\* The 2FA fields of every user document.
TwoFactorFields(coll) ==
    [i \in 1..Len(coll) |->
        <<coll[i].totp_secret, coll[i].backup_codes, coll[i].totp_enabled>>]

\* C1: no two user documents share an email, and no two share a username,
\* in any reachable state, also when register requests interleave between
\* their find_one and their insert_one.
C1_UniqueEmailAndUsername ==
    \A i, j \in 1..Len(users) :
        i # j => users[i].email # users[j].email /\ users[i].username # users[j].username

C3_LocalUploadDownloadRoundTrip ==
    (/\ resp.op = "download"
     /\ resp.in.backup_id \in 1..Len(uploads)
     /\ uploads[resp.in.backup_id].owner = resp.uid
     /\ uploads[resp.in.backup_id].provider = "local"
     /\ ~uploads[resp.in.backup_id].deleted)
    => /\ resp.status = 200
       /\ resp.out.filename = uploads[resp.in.backup_id].filename
       /\ b64decode(resp.out.data) = b64decode(uploads[resp.in.backup_id].data)
       /\ b64decode(resp.out.data).ok

\* The bytes "hi", uploaded as base64 with a line break in it, came back
\* after a second upload had been made.
C3_Witness ==
    /\ resp.op = "download" /\ resp.status = 200
    /\ Len(uploads) = 2
    /\ resp.in.backup_id = 1
    /\ uploads[1].data = <<97, 71, 10, 107, 61>>
    /\ b64decode(resp.out.data).bytes = <<104, 105>>
    /\ resp.out.filename = "keys.bin"

\* C4: a download or delete of a backup by a user who does not own it gets
\* 404 and no data, and a backup document leaves the collection, or changes,
\* only by a successful delete of its id by its owner.
C4_OtherUsersBackupIsNotFound ==
    [][ /\ (/\ resp'.op \in {"download", "delete"}
            /\ resp'.uid # 0
            /\ resp'.in.backup_id \in 1..Len(uploads')
            /\ uploads'[resp'.in.backup_id].owner # resp'.uid)
           => /\ resp'.status = 404
              /\ resp'.detail = "Backup not found"
              /\ resp'.out = [none |-> TRUE]
        /\ \A i \in 1..Len(backups) :
              (\A j \in 1..Len(backups') : backups'[j] # backups[i])
              => /\ resp'.op = "delete" /\ resp'.status = 200
                 /\ resp'.uid = backups[i].user_id
                 /\ resp'.in.backup_id = backups[i].id
      ]_vars

\* A delete by the user who does not own the backup was answered 404 and the
\* document is still stored.
C4_Witness ==
    /\ resp.op = "delete" /\ resp.status = 404
    /\ resp.in.backup_id \in 1..Len(uploads)
    /\ uploads[resp.in.backup_id].owner # resp.uid
    /\ resp.uid # 0
    /\ \E i \in 1..Len(backups) :
          backups[i].id = resp.in.backup_id /\ backups[i].user_id # resp.uid

\* C5: when the response before a verify is the setup of the same user, the
\* user's totp_enabled is false and the code is the one-time code of the
\* returned secret for the current time, the verify succeeds, totp_enabled
\* becomes true, and the stored secret and all 8 backup codes stay as setup
\* returned them.
C5_SetupThenVerifyEnables ==
    [][ \A tok \in tokens, code \in CodeInputs :
          (/\ resp.op = "setup" /\ resp.status = 200
           /\ get_current_user(tok, now, users).ok
           /\ get_current_user(tok, now, users).user[1].id = resp.uid
           /\ ~UserById(users, resp.uid).totp_enabled
           /\ code = TotpAt(resp.out.secret, now)
           /\ verify_2fa(tok, code))
          => /\ resp'.op = "verify" /\ resp'.status = 200
             /\ UserById(users', resp.uid).totp_enabled
             /\ UserById(users', resp.uid).totp_secret = Some(resp.out.secret)
             /\ UserById(users', resp.uid).backup_codes = resp.out.backup_codes
             /\ Len(UserById(users', resp.uid).backup_codes) = BackupCodeCount
      ]_vars

\* A verify that came right after the same user's setup, read totp_enabled
\* false and presented the current one-time code has enabled 2FA.
C5_Witness ==
    /\ resp.op = "verify" /\ resp.status = 200
    /\ resp.detail = "2FA enabled successfully"
    /\ resp.in.after = [op |-> "setup", uid |-> resp.uid]
    /\ ~resp.in.enabled
    /\ UserById(users, resp.uid).totp_enabled
    /\ UserById(users, resp.uid).backup_codes = issued[resp.uid].codes
    /\ resp.in.code = TotpAt(UserById(users, resp.uid).totp_secret[1], resp.in.at)

\* C6: after a setup completes the user is in PendingVerification: the
\* stored secret and backup codes are the ones it returned and totp_enabled
\* is false.
C6_SetupLeavesPendingVerification ==
    (resp.op = "setup" /\ resp.status = 200)
    => /\ UserById(users, resp.uid).totp_secret = Some(resp.out.secret)
       /\ UserById(users, resp.uid).backup_codes = resp.out.backup_codes
       /\ ~UserById(users, resp.uid).totp_enabled

\* C7: after a disable, and until the user's next setup, the user has no
\* secret, no backup codes and totp_enabled false, and every verify by that
\* user is answered 400 '2FA not setup'.
C7_DisableClearsUntilNextSetup ==
    /\ (resp.op = "disable" /\ resp.status = 200) =>
          /\ issued[resp.uid].phase # "setup"
          /\ UserById(users, resp.uid).totp_secret = None
          /\ UserById(users, resp.uid).backup_codes = <<>>
          /\ ~UserById(users, resp.uid).totp_enabled
    /\ \A id \in UserIds :
          issued[id].phase = "disabled" =>
              /\ UserById(users, id).totp_secret = None
              /\ UserById(users, id).backup_codes = <<>>
              /\ ~UserById(users, id).totp_enabled
              /\ (resp.op = "verify" /\ resp.uid = id)
                    => resp.status = 400 /\ resp.detail = "2FA not setup"

\* After a disable, a verify presented a backup code of the setup before it
\* and was answered '2FA not setup'.
C7_Witness ==
    /\ resp.op = "verify" /\ resp.uid # 0
    /\ issued[resp.uid].phase = "disabled"
    /\ resp.in.code \in Range(issued[resp.uid].codes)
    /\ resp.status = 400 /\ resp.detail = "2FA not setup"

\* C8: a verify by a user who has no secret, or whose code is neither the
\* one-time code of the current interval nor a stored backup code, is
\* answered 400 and leaves every 2FA field as it was.
C8_FailedVerifyChangesNothing ==
    [][ resp'.op = "verify" =>
          \A tok \in tokens :
             LET code == resp'.in.code
                 cu   == get_current_user(tok, now, users)
             IN (/\ cu.ok
                 /\ \/ cu.user[1].totp_secret = None
                    \/ /\ code # TotpAt(cu.user[1].totp_secret[1], now)
                       /\ code \notin Range(cu.user[1].backup_codes)
                 /\ verify_2fa(tok, code))
                => /\ resp'.status = 400
                   /\ resp'.detail \in {"2FA not setup", "Invalid code"}
                   /\ resp'.out = [success |-> FALSE]
                   /\ TwoFactorFields(users') = TwoFactorFields(users)
      ]_vars

\* An enabled user's verify with an unknown code was refused, and the user
\* is still enabled with the secret and codes in place.
C8_Witness ==
    /\ resp.op = "verify" /\ resp.status = 400 /\ resp.detail = "Invalid code"
    /\ resp.in.enabled
    /\ UserById(users, resp.uid).totp_enabled
    /\ UserById(users, resp.uid).totp_secret # None
    /\ Len(UserById(users, resp.uid).backup_codes) > 0

\* C9: a register that starts when a document already has its email, or has
\* its username under another email, is answered 400, gets no token, inserts
\* nothing and has nothing left to do.
C9_LaterDuplicateRegisterRejected ==
    [][ \A r \in Slots, e \in Emails, n \in Usernames, p \in Passwords, s \in Salts :
          (/\ \E i \in 1..Len(users) :
                 \/ users[i].email = e
                 \/ users[i].username = n /\ users[i].email # e
           /\ RegisterFind(r, e, n, p, s))
          => /\ resp'.op = "register" /\ resp'.status = 400
             /\ resp'.in = [email |-> e, username |-> n, password |-> p]
             /\ resp'.out.access_token = None
             /\ users' = users
             /\ tokens' = tokens
             /\ req'[r] = Idle
      ]_vars

\* A register with a new email and a taken username was refused.
C9_Witness ==
    /\ resp.op = "register" /\ resp.status = 400
    /\ \E i \in 1..Len(users) : users[i].username = resp.in.username
    /\ \A i \in 1..Len(users) : users[i].email # resp.in.email

\* C10: a login succeeds, with a token, exactly when some user document has
\* the supplied email and a hash the supplied password verifies against;
\* nothing of the 2FA state enters.
C10_LoginIffCredentialsMatch ==
    resp.op = "login" =>
        ((resp.status = 200 /\ resp.out.access_token # None)
         <=> \E i \in 1..Len(users) :
                /\ users[i].email = resp.in.email
                /\ verify_password(resp.in.password, users[i].password_hash))

\* The step answers a bearer-protected request that carried tok.
BearerStep(tok) ==
    \/ resp'.op = "me" /\ get_me(tok)
    \/ resp'.op = "setup" /\ \E d \in SetupDraws : setup_2fa(tok, d.secret, d.codes)
    \/ resp'.op = "verify" /\ verify_2fa(tok, resp'.in.code)
    \/ resp'.op = "disable" /\ disable_2fa(tok)
    \/ resp'.op = "update_peer_id" /\ update_peer_id(tok, resp'.in.peer_id)
    \/ resp'.op = "set_offline" /\ set_offline(tok)
    \/ resp'.op = "online" /\ get_online_users(tok)
    \/ resp'.op = "upload" /\ \E iv \in IVs :
          upload_backup(tok, resp'.in.filename, resp'.in.data, resp'.in.provider, iv)
    \/ resp'.op = "list" /\ list_backups(tok)
    \/ resp'.op = "download" /\ download_backup(tok, resp'.in.backup_id)
    \/ resp'.op = "delete" /\ delete_backup(tok, resp'.in.backup_id)

\* C11: a bearer-protected request with a token that register or login
\* handed out and that has not reached its expiry is answered as the user
\* the token was made for and never with 401; one with an expired, forged or
\* malformed token, or a token for an id no user has, is answered 401 for no
\* caller and leaves users and backups as they were.
C11_TokenResolvesCallerFirst ==
    [][ \A tok \in PresentedAll :
          BearerStep(tok) =>
             IF tok \in tokens /\ now < tok.payload.exp
             THEN /\ resp'.uid = tok.payload.user_id
                  /\ resp'.status # 401
             ELSE /\ resp'.uid = 0
                  /\ resp'.status = 401
                  /\ resp'.detail \in {"Token expired", "Invalid token", "User not found"}
                  /\ users' = users
                  /\ backups' = backups
      ]_vars

\* A delete of a stored backup with a token past its expiry was refused while
\* a newer token of the same user is good, and the backup is still stored.
C11_Witness ==
    /\ resp.op = "delete" /\ resp.status = 401 /\ resp.detail = "Token expired"
    /\ \E i \in 1..Len(backups) : backups[i].id = resp.in.backup_id
    /\ \E tok \in tokens : now < tok.payload.exp

\* C12: every stored backup document has exactly one of encrypted_data and
\* cloud_file_id populated: encrypted_data when its provider is "local",
\* cloud_file_id for every other provider.
C12_ExactlyOnePayloadOrReference ==
    \A i \in 1..Len(backups) :
        IF backups[i].provider = "local"
        THEN TruthyText(backups[i].encrypted_data) /\ backups[i].cloud_file_id = None
        ELSE backups[i].encrypted_data = None /\ backups[i].cloud_file_id # None

\* C13: a list call returns all of the caller's backup documents and no one
\* else's, newest first, each without encrypted_data and otherwise as stored.
C13_ListReturnsAllOwnNewestFirst ==
    (resp.op = "list" /\ resp.status = 200) =>
        LET out  == resp.out.backups
            mine == {i \in 1..Len(backups) : backups[i].user_id = resp.uid}
        IN /\ Len(out) = Cardinality(mine)
           /\ {out[k] : k \in 1..Len(out)} = {WithoutEncryptedData(backups[i]) : i \in mine}
           /\ \A k \in 1..Len(out) : "encrypted_data" \notin DOMAIN out[k]
           /\ \A k \in 1..(Len(out) - 1) : out[k].created_at >= out[k + 1].created_at

\* The user's most recent presence call was update-peer-id.
LastWasUpdate(id) == presence[id].last = "update_peer_id"

\* C14: an online listing for caller c is exactly the users other than c
\* whose most recent presence call was update-peer-id, each with the peer id
\* of that call; and a lookup of a username reports, for the user of that
\* name, the peer id of the most recent update-peer-id and whether that was
\* the most recent presence call.
C14_OnlineListFollowsLatestPresenceCall ==
    /\ (resp.op = "online" /\ resp.status = 200) =>
          LET others == {i \in 1..Len(users) :
                            users[i].id # resp.uid /\ LastWasUpdate(users[i].id)}
          IN /\ Len(resp.out.users) = Cardinality(others)
             /\ Range(resp.out.users) =
                   {[username |-> users[i].username,
                     current_peer_id |-> presence[users[i].id].peer_id] : i \in others}
    /\ (resp.op = "lookup" /\ resp.status = 200) =>
          \A i \in 1..Len(users) :
              users[i].username = resp.in.username =>
                  /\ resp.out.peer_id = presence[users[i].id].peer_id
                  /\ resp.out.online_status = LastWasUpdate(users[i].id)
    /\ (resp.op = "lookup" /\ resp.status = 404) =>
          \A i \in 1..Len(users) : users[i].username # resp.in.username

\* C15: however verify requests of one user overlap, between two setups
\* each issued backup code is accepted at most once, and a code that was
\* accepted is not among the stored backup_codes again.
C15_OverlappingVerifiesAcceptCodeOnce ==
    \A id \in UserIds :
        issued[id].phase = "setup" =>
            \A c \in DOMAIN issued[id].accepted :
                /\ issued[id].accepted[c] <= 1
                /\ issued[id].accepted[c] >= 1 => c \notin Range(UserById(users, id).backup_codes)

\* C16: in every state, also between a verify's read and its write, a user
\* with totp_enabled true has a totp_secret, and a user without a
\* totp_secret has no backup codes.
C16_EnabledHasSecretAndNoSecretHasNoCodes ==
    \A i \in 1..Len(users) :
        /\ users[i].totp_enabled => users[i].totp_secret # None
        /\ users[i].totp_secret = None => users[i].backup_codes = <<>>

\* C17: when no request is in flight, the stored backup codes of a user whose
\* latest 2FA call was a setup are all among the codes that setup returned.
C17_OnlyLatestSetupCodesStored ==
    (\A r \in Slots : req[r] = Idle) =>
        \A id \in UserIds :
            issued[id].phase = "setup" =>
                Range(UserById(users, id).backup_codes) \subseteq Range(issued[id].codes)

\* The fields of a user document that identify the account.
Identity(u) == <<u.id, u.email, u.username, u.password_hash>>

\* C18: a step of any handler keeps every user document in place with its
\* id, email, username and password hash, keeps every backup's owner, and
\* changes or removes only the document of the caller it answered and
\* backups that caller owns.
C18_OnlyCallersOwnRecordsChange ==
    [][ /\ Len(users') >= Len(users)
        /\ \A i \in 1..Len(users) :
              /\ Identity(users'[i]) = Identity(users[i])
              /\ users[i].id # resp'.uid => users'[i] = users[i]
        /\ \A i \in 1..Len(backups) :
              /\ backups[i].user_id # resp'.uid =>
                    \E j \in 1..Len(backups') : backups'[j] = backups[i]
              /\ \A j \in 1..Len(backups') :
                    backups'[j].id = backups[i].id =>
                        backups'[j].user_id = backups[i].user_id
      ]_vars

\* One user deleted an own backup while the other user, who is online, still
\* has a backup stored.
C18_Witness ==
    /\ resp.op = "delete" /\ resp.status = 200
    /\ \E i \in 1..Len(users), j \in 1..Len(backups) :
          /\ users[i].id # resp.uid
          /\ users[i].online_status
          /\ backups[j].user_id = users[i].id

\* The backup ids that were uploaded with a provider other than "local".
NonLocalIds == {id \in 1..Len(uploads) : uploads[id].provider # "local"}

\* The stored backup documents with this id.
StoredWithId(coll, id) == {i \in 1..Len(coll) : coll[i].id = id}

====
